---- MODULE Spec2Model ----
(***************************************************************************)
(* A model of the scratchpad daemon, src/wm_scratch_pad/scratchpad.py.     *)
(*                                                                         *)
(* The specifications share the variables and the actions:                 *)
(*   Spec            one daemon that has reached its listening state, the  *)
(*                   command pipe, the toggle task on its event loop and   *)
(*                   the window manager it queries and mutates; a command  *)
(*                   is written once the previous toggle has finished;     *)
(*   SpecConcurrent  the same daemon with commands written at any time,    *)
(*                   so that two toggle tasks are in flight together;      *)
(*   SpecBurst       the same daemon with two commands possibly written    *)
(*                   before it reads, while its loop is idle;              *)
(*   SpecFair        Spec with the event loop's scheduling of its tasks;   *)
(*   SpecSingleton   several instances of the program running main() up to *)
(*                   the listening state, the PID file and the fifo path;  *)
(*   SpecReuse       the same, started on a PID file whose pid is in use.  *)
(*                                                                         *)
(* The window-manager gateway (python-ewmh) is not part of the repository: *)
(* a setter is modelled as taking effect before the next getter reads, as  *)
(* spec section 5 assumes ("synchronous-but-fast").                        *)
(***************************************************************************)
EXTENDS Integers, Sequences, FiniteSets, TLC

VARIABLES
    wm,         \* window manager: window -> [mapped, desktop, sticky, above, dock]
    active,     \* the window ew.getActiveWindow() returns
    tasks,      \* event loop: task slot -> the toggle_visible coroutine in it
    pipe,       \* bytes written to the fifo and not yet read by the daemon
    logged,     \* what the most recent handler step passed to logger.error
    proc,       \* pid -> the instance of the program with that pid
    pidFile,    \* the PID file path: Absent or [ino, content]
    fifoFile,   \* the fifo path: Absent or [ino]
    script      \* the helper script path: absent or [content, mode]

vars == <<wm, active, tasks, pipe, logged, proc, pidFile, fifoFile, script>>

toggleVars == <<wm, active, tasks, pipe, logged>>
singletonVars == <<proc, pidFile, fifoFile, script>>

(***************************************************************************)
(* Bounds of the model.                                                    *)
(***************************************************************************)
\* range(int(win_wait_timeout / win_wait_interval)) is 30 probes in the
\* source; the model runs the same loop with MaxPolls probes.
MaxPolls == 2
\* instances of the program started in one behaviour
MaxInstances == 2
\* what ew.getNumberOfDesktops() returns at startup (line 163)
NumberOfDesktops == 2

(***************************************************************************)
(* Program constants and the registry (the __main__ block).                *)
(***************************************************************************)

inactive_desktop == NumberOfDesktops - 1

\* 4294967295 (0xFFFFFFFF) at line 56: the desktop the WM reports for a window
\* shown on all desktops.  The model checker's integers are 32-bit signed, so
\* the same bit pattern is written as the signed value; it is only ever
\* compared for equality, and no desktop index equals it.
STICKY_DESKTOP == -1

win_wait_attempts == MaxPolls

Apps == {"spotify", "obsidian"}

scratchpad_apps ==
    [a \in Apps |->
        IF a = "spotify"
        THEN [window_class |-> <<"spotify", "Spotify">>,
              app_cmd |-> "/home/pedro/.nix-profile/bin/spotify"]
        ELSE [window_class |-> <<"obsidian", "obsidian">>,
              app_cmd |-> "/home/pedro/.nix-profile/bin/obsidian"]]

(***************************************************************************)
(* The window manager.                                                     *)
(***************************************************************************)
\* The windows that can exist: two of Spotify, one of Obsidian, and a
\* terminal that belongs to no registered application and is always mapped.
Wins == {"s1", "s2", "o1", "x1"}

\* ew.getClientList() lists the mapped windows in this order.
ClientOrder == <<"s1", "s2", "o1", "x1">>

get_wm_class(w) ==
    CASE w \in {"s1", "s2"} -> <<"spotify", "Spotify">>
      [] w = "o1" -> <<"obsidian", "obsidian">>
      [] OTHER -> <<"xterm", "XTerm">>

Desktops == (0 .. NumberOfDesktops - 1) \cup {STICKY_DESKTOP}

getClientList(wmS) == SelectSeq(ClientOrder, LAMBDA w : wmS[w].mapped)

getWmDesktop(wmS, w) == wmS[w].desktop

setWmDesktop(wmS, w, d) == [wmS EXCEPT ![w].desktop = d]

\* ew.setWmState(win, action, prop) for the three properties the code uses
setWmState(wmS, w, on, prop) ==
    CASE prop = "_NET_WM_STATE_STICKY" -> [wmS EXCEPT ![w].sticky = on]
      [] prop = "_NET_WM_STATE_ABOVE" -> [wmS EXCEPT ![w].above = on]
      [] prop = "_NET_WM_TYPE_DOCK" -> [wmS EXCEPT ![w].dock = on]

Unmapped == [mapped |-> FALSE, desktop |-> 0, sticky |-> FALSE,
             above |-> FALSE, dock |-> FALSE]

(***************************************************************************)
(* ScratchpadApp (lines 20-69).                                            *)
(***************************************************************************)
\* mutant: the client list is not filtered
windows_any_class(wmS, app) == getClientList(wmS)

\* ScratchpadApp.windows: the client list filtered by window class
windows(wmS, app) ==
    SelectSeq(getClientList(wmS),
              LAMBDA w : get_wm_class(w) = scratchpad_apps[app].window_class)

\* mutant: the active window's desktop is not compared
is_not_active_unless_sticky(wmS, act, w) ==
    getWmDesktop(wmS, w) # STICKY_DESKTOP

\* mutant: the sticky sentinel is not set apart
is_not_active_any_desktop(wmS, act, w) ==
    getWmDesktop(wmS, w) # getWmDesktop(wmS, act)

\* is_not_active, lines 54-57
is_not_active(wmS, act, w) ==
    /\ getWmDesktop(wmS, w) # getWmDesktop(wmS, act)
    /\ getWmDesktop(wmS, w) # STICKY_DESKTOP

\* mutant: just_spawned does not override the determination
shows_if_not_active(just_spawned, not_active) == not_active

\* the test of line 59
shows(just_spawned, not_active) == just_spawned \/ not_active

\* mutant: Showing also moves the window, to the sticky desktop
Showing_and_move(wmS, w) ==
    [wmS EXCEPT ![w].sticky = TRUE, ![w].above = TRUE, ![w].dock = TRUE,
                ![w].desktop = STICKY_DESKTOP]

\* lines 60-63
Showing(wmS, w) ==
    setWmState(
        setWmState(
            setWmState(wmS, w, TRUE, "_NET_WM_STATE_STICKY"),
            w, TRUE, "_NET_WM_STATE_ABOVE"),
        w, TRUE, "_NET_WM_TYPE_DOCK")

\* lines 65-69
Hiding(wmS, w) ==
    setWmState(
        setWmState(
            setWmState(setWmDesktop(wmS, w, inactive_desktop),
                       w, FALSE, "_NET_WM_STATE_STICKY"),
            w, FALSE, "_NET_WM_STATE_ABOVE"),
        w, FALSE, "_NET_WM_TYPE_DOCK")

\* one iteration of the loop of lines 53-69
toggle_window(wmS, act, w, just_spawned) ==
    IF shows(just_spawned, is_not_active(wmS, act, w))
    THEN Showing(wmS, w)
    ELSE Hiding(wmS, w)

\* mutant: the coroutine yields between its probe and its loop, which runs
\* in a later step
toggle_windows_deferred(wmS, act, wins, just_spawned) == wmS

\* the loop of lines 53-69 over wins, each iteration reading the gateway anew
RECURSIVE toggle_windows(_, _, _, _)
toggle_windows(wmS, act, wins, just_spawned) ==
    IF wins = <<>>
    THEN wmS
    ELSE toggle_windows(toggle_window(wmS, act, Head(wins), just_spawned),
                        act, Tail(wins), just_spawned)

\* a slot of the event loop that holds no coroutine
NoTask == [st |-> "free", app |-> "", i |-> 0, launches |-> 0,
           just_spawned |-> FALSE]

\* asyncio.create_task(app.toggle_visible()): the coroutine before its first step
NewTask(app) == [st |-> "created", app |-> app, i |-> 0, launches |-> 0,
                 just_spawned |-> FALSE]

\* The slots of the event loop, in the order a new task takes them.  Two
\* slots let two coroutines be in flight together; a finished one is reused.
TaskOrder == <<"t1", "t2">>

TaskIds == {TaskOrder[k] : k \in DOMAIN TaskOrder}

\* a coroutine that has returned or raised; the loop drops it
Finished(t) == tasks[t].st \in {"free", "done", "timeout", "failed"}

Pids == 1 .. MaxInstances

\* the pid of the daemon whose event loop Spec follows
Daemon == CHOOSE p \in Pids : \A q \in Pids : p <= q

Listening(p) == proc[p].pc = "listening"

\* mutant: a toggle waits for the earlier toggles of its application
ready_one_per_app(t) ==
    /\ tasks[t].st \in {"created", "spawning", "sleeping"}
    /\ \A u \in DOMAIN tasks :
          (u # t /\ tasks[u].app = tasks[t].app)
          => tasks[u].st \notin {"spawning", "sleeping"}

\* mutant: the loop runs one toggle at a time, to its end
ready_one_at_a_time(t) ==
    /\ tasks[t].st \in {"created", "spawning", "sleeping"}
    /\ \A u \in DOMAIN tasks :
          u # t => tasks[u].st \notin {"spawning", "sleeping"}

\* asyncio.create_task, line 98: the loop steps a coroutine that has not
\* finished whenever what it awaits is over, whatever the other tasks do
ready(t) == tasks[t].st \in {"created", "spawning", "sleeping"}

\* lines 35-40: the launch; create_subprocess_exec raises out of the
\* coroutine when the command cannot be executed
spawn(task, exec_ok) ==
    [task EXCEPT !.launches = @ + 1,
                 !.st = IF exec_ok THEN "spawning" ELSE "failed"]

\* mutant: the loop does not count its iterations
sleep_uncounted(task) == [task EXCEPT !.st = "sleeping"]

\* mutant: the launch is inside the polling loop
sleep_and_relaunch(task) ==
    [task EXCEPT !.st = "sleeping", !.i = @ + 1, !.launches = @ + 1]

\* lines 43-47 on an empty probe: sleep, then the next iteration
sleep(task) == [task EXCEPT !.st = "sleeping", !.i = @ + 1]

\* lines 44-46 on a probe that finds windows, then the loop of lines 53-69
found(task) == [task EXCEPT !.st = "done", !.just_spawned = TRUE]

\* mutant: the exhausted loop launches again and starts over
timeout_and_retry(task) ==
    [task EXCEPT !.st = "spawning", !.i = 0, !.launches = @ + 1]

\* lines 48-50: the else clause of the for loop returns
timeout(task) == [task EXCEPT !.st = "timeout"]

\* line 49
timeout_error(task) ==
    <<[msg |-> "Failed to find window for",
       arg |-> scratchpad_apps[task.app].window_class]>>

\* mutant: an exception raised in a toggle ends main()
task_exception_propagates(pr) ==
    IF pr.atexit THEN [pr EXCEPT !.pc = "atexit_fifo", !.exit = "error"]
    ELSE [pr EXCEPT !.pc = "dead", !.rfd = 0, !.wfd = 0, !.exit = "error"]

\* What an exception raised in toggle_visible does to the daemon.  The
\* coroutine runs in a task of its own (line 98) that nothing awaits: the
\* event loop keeps the exception in the task, and main() runs on.
task_exception(pr) == pr

\* toggle_visible up to its first await, lines 30-40 (and 53-69 when the
\* probe of line 30 finds windows).  exec_ok: whether the launch command can
\* be executed; asyncio.create_subprocess_exec raises when it cannot.
ToggleStart(t, exec_ok) ==
    /\ Listening(Daemon)
    /\ ready(t)
    /\ tasks[t].st = "created"
    /\ LET app == tasks[t].app
           wins == windows(wm, app)
       IN IF Len(wins) = 0
          THEN /\ tasks' = [tasks EXCEPT ![t] = spawn(@, exec_ok)]
               /\ wm' = wm
               /\ proc' = IF exec_ok THEN proc
                          ELSE [proc EXCEPT ![Daemon] = task_exception(@)]
          ELSE /\ wm' = toggle_windows(wm, active, wins, FALSE)
               /\ tasks' = [tasks EXCEPT ![t].st = "done"]
               /\ proc' = proc
    /\ logged' = <<>>
    /\ UNCHANGED <<active, pipe, pidFile, fifoFile, script>>

\* one iteration of the loop of lines 42-47, entered when the await of line
\* 36 or the sleep of line 47 returns (and lines 53-69 when it finds windows)
TogglePoll(t) ==
    /\ Listening(Daemon)
    /\ ready(t)
    /\ tasks[t].st \in {"spawning", "sleeping"}
    /\ tasks[t].i < win_wait_attempts
    /\ LET app == tasks[t].app
           wins == windows(wm, app)
       IN IF Len(wins) > 0
          THEN /\ wm' = toggle_windows(wm, active, wins, TRUE)
               /\ tasks' = [tasks EXCEPT ![t] = found(@)]
          ELSE /\ wm' = wm
               /\ tasks' = [tasks EXCEPT ![t] = sleep(@)]
    /\ logged' = <<>>
    /\ UNCHANGED <<active, pipe, proc, pidFile, fifoFile, script>>

\* the else clause of the loop, lines 48-50: the range is exhausted
ToggleTimeout(t) ==
    /\ Listening(Daemon)
    /\ ready(t)
    /\ tasks[t].st = "sleeping"
    /\ tasks[t].i = win_wait_attempts
    /\ tasks' = [tasks EXCEPT ![t] = timeout(@)]
    /\ logged' = timeout_error(tasks[t])
    /\ UNCHANGED <<wm, active, pipe, proc, pidFile, fifoFile, script>>

\* A gateway call of the loop of lines 53-69 raises (the window has been
\* closed, there is no active window, the X server reports an error) in
\* the step of task t that finds windows, after the loop has handled the
\* first n of them.  The exception leaves toggle_visible.
ToggleGatewayError(t, n) ==
    /\ Listening(Daemon)
    /\ ready(t)
    /\ tasks[t].st # "created" => tasks[t].i < win_wait_attempts
    /\ LET wins == windows(wm, tasks[t].app)
       IN /\ n < Len(wins)
          /\ wm' = toggle_windows(wm, active, SubSeq(wins, 1, n),
                                  tasks[t].st # "created")
    /\ tasks' = [tasks EXCEPT ![t].st = "failed"]
    /\ proc' = [proc EXCEPT ![Daemon] = task_exception(@)]
    /\ logged' = <<>>
    /\ UNCHANGED <<active, pipe, pidFile, fifoFile, script>>

(***************************************************************************)
(* ScratchpadReaderProtocol (lines 72-100) and the writers of the fifo.    *)
(***************************************************************************)
\* The bytes on the pipe are modelled as atoms: a word, or the newline that
\* echo appends.  data.decode() maps an atom to itself.
Whitespace == {"\n"}

\* what a key binding may pass to the helper script
Commands == Apps \cup {"unknownapp", ""}

\* echo "$1" > fifo, the generated script (lines 110-113)
echo(arg) == IF arg = "" THEN <<"\n">> ELSE <<arg, "\n">>

RECURSIVE lstrip(_)
lstrip(s) ==
    IF s # <<>> /\ Head(s) \in Whitespace THEN lstrip(Tail(s)) ELSE s

RECURSIVE rstrip(_)
rstrip(s) ==
    IF s # <<>> /\ s[Len(s)] \in Whitespace
    THEN rstrip(SubSeq(s, 1, Len(s) - 1))
    ELSE s

\* str.strip(), line 95: the atoms left are the characters of app_name
strip(s) == rstrip(lstrip(s))

\* line 97: app_name in scratchpad_apps.  A name of several atoms is the
\* concatenation of words and inner newlines, which is no key.
in_registry(app_name) ==
    Len(app_name) = 1 /\ app_name[1] \in DOMAIN scratchpad_apps

\* mutant: a name that is no key falls back to the first application
resolve_with_default(app_name) ==
    IF Len(app_name) = 1 /\ app_name[1] \in DOMAIN scratchpad_apps
    THEN {app_name[1]}
    ELSE {"spotify"}

\* lines 97-98: the applications the command starts a toggle for
resolve(app_name) ==
    IF in_registry(app_name) THEN {app_name[1]} ELSE {}

\* the slot a new task takes: the first one whose coroutine has finished
FreeSlot(t) ==
    \E k \in DOMAIN TaskOrder :
        /\ TaskOrder[k] = t
        /\ Finished(t)
        /\ \A j \in 1 .. k - 1 : ~Finished(TaskOrder[j])

\* what the pipe holds when the daemon has read every write but at most one
Unread == {<<>>} \cup {echo(a) : a \in Commands}

\* A writer runs the helper script while the daemon holds the fifo open: the
\* bytes are appended to those the daemon has not read yet.  A write finds
\* at most one earlier write unread.
Write(arg) ==
    /\ Listening(Daemon)
    /\ pipe \in Unread
    /\ pipe' = pipe \o echo(arg)
    /\ UNCHANGED <<wm, active, tasks, logged, proc, pidFile, fifoFile, script>>

\* a write that arrives after the daemon has read the one before it
WriteAfterRead(arg) ==
    /\ pipe = <<>>
    /\ Write(arg)

\* the user sends a command once the previous toggle has finished
WriteWhenIdle(arg) ==
    /\ \A t \in TaskIds : Finished(t)
    /\ WriteAfterRead(arg)

\* the user sends commands in a burst once the previous toggles have
\* finished: the second write may arrive before the daemon reads the first
WriteBurst(arg) ==
    /\ \A t \in TaskIds : Finished(t)
    /\ Write(arg)

\* mutant: the fifo is opened for reading only
holds_write_end_rdonly(pr) == FALSE

\* os.open(fifo_file, os.O_RDWR), line 144: the descriptor the daemon reads
\* from is a write end of the pipe too, for as long as it is open
holds_write_end(pr) == pr.rfd # 0

\* The read transport of line 146 after a read.  A writer has closed the
\* pipe by then (the helper script opens, writes and closes): if no write
\* end is left the next read returns end-of-stream and the transport
\* closes its descriptor.
after_read(pr) == IF holds_write_end(pr) THEN pr ELSE [pr EXCEPT !.rfd = 0]

\* data_received, lines 94-100: one read returns all the bytes on the pipe
data_received ==
    /\ Listening(Daemon)
    /\ proc[Daemon].rfd # 0
    /\ pipe # <<>>
    /\ LET app_name == strip(pipe)
           apps == resolve(app_name)
       IN IF apps # {}
          THEN /\ \E t \in TaskIds, a \in apps :
                     /\ FreeSlot(t)
                     /\ tasks' = [tasks EXCEPT ![t] = NewTask(a)]
               /\ logged' = <<>>
          ELSE /\ tasks' = tasks
               /\ logged' = <<[msg |-> "Unknown app", arg |-> app_name]>>
    /\ pipe' = <<>>
    /\ proc' = [proc EXCEPT ![Daemon] = after_read(@)]
    /\ UNCHANGED <<wm, active, pidFile, fifoFile, script>>

(***************************************************************************)
(* The environment of the toggle: applications map their windows, the user *)
(* moves the focus, the window manager reports a sticky window on the      *)
(* sticky desktop.                                                         *)
(***************************************************************************)
RealDesktops == 0 .. NumberOfDesktops - 1

MapWindow(w, d, focus) ==
    /\ ~wm[w].mapped
    /\ wm' = [wm EXCEPT ![w] = [mapped |-> TRUE, desktop |-> d,
                                sticky |-> FALSE, above |-> FALSE,
                                dock |-> FALSE]]
    /\ active' = IF focus THEN w ELSE active
    /\ UNCHANGED <<tasks, pipe, logged, proc, pidFile, fifoFile, script>>

FocusWindow(w) ==
    /\ wm[w].mapped
    /\ w # active
    /\ active' = w
    /\ UNCHANGED <<wm, tasks, pipe, logged, proc, pidFile, fifoFile, script>>

WmReportsSticky(w) ==
    /\ wm[w].mapped
    /\ wm[w].sticky
    /\ wm[w].desktop # STICKY_DESKTOP
    /\ wm' = setWmDesktop(wm, w, STICKY_DESKTOP)
    /\ UNCHANGED <<active, tasks, pipe, logged, proc, pidFile, fifoFile, script>>

(***************************************************************************)
(* Spec and SpecConcurrent: the daemon is listening.                       *)
(***************************************************************************)
NoFile == [exists |-> FALSE, ino |-> 0, content |-> <<>>]

\* no file at the script path
NoScript == [exists |-> FALSE, content |-> <<>>, mode |-> ""]

\* lines 110-113, dedented: the text main() writes to the script
script_contents == <<"#!/usr/bin/env sh", "echo \"$1\" > fifo_file">>

\* the script once lines 114-115 have run
HelperScript == [exists |-> TRUE, content |-> script_contents, mode |-> "755"]

\* a file the user has put at the script path
UserScript == [exists |-> TRUE, content |-> <<"#!/bin/sh", "exit 0">>,
               mode |-> "644"]

NoProc == [pc |-> "idle", pid |-> 0, sigterm |-> "none", wfd |-> 0,
           rfd |-> 0, atexit |-> FALSE, exit |-> "none"]

\* a window as the daemon may find it when a command arrives: not there, on
\* a desktop with its flags clear, or shown on all desktops by an earlier toggle
InitWindowStates ==
    {Unmapped}
    \cup {[mapped |-> TRUE, desktop |-> d, sticky |-> FALSE,
           above |-> FALSE, dock |-> FALSE] : d \in RealDesktops}
    \cup {[mapped |-> TRUE, desktop |-> STICKY_DESKTOP, sticky |-> TRUE,
           above |-> TRUE, dock |-> TRUE]}

\* the state main() leaves when it reaches line 148 with no other instance
InitDaemon ==
    /\ tasks = [t \in TaskIds |-> NoTask]
    /\ pipe = <<>>
    /\ logged = <<>>
    /\ proc = [p \in Pids |->
                 IF p = Daemon
                 THEN [NoProc EXCEPT !.pc = "listening", !.rfd = p,
                                     !.atexit = TRUE]
                 ELSE NoProc]
    /\ pidFile = [exists |-> TRUE, ino |-> Daemon, content |-> <<Daemon>>]
    /\ fifoFile = [exists |-> TRUE, ino |-> Daemon, content |-> <<>>]
    /\ script = HelperScript

\* Spec: both Spotify windows and the terminal, on any desktop; Obsidian
\* never shows a window
SpecWins == {"s1", "s2"}

Init ==
    /\ wm \in [Wins -> InitWindowStates]
    /\ ~wm["o1"].mapped
    /\ wm["x1"].mapped /\ ~wm["x1"].sticky
    /\ active \in {w \in Wins : wm[w].mapped}
    /\ InitDaemon

Next ==
    \/ \E arg \in Commands : WriteWhenIdle(arg)
    \/ data_received
    \/ \E t \in TaskIds, exec_ok \in BOOLEAN : ToggleStart(t, exec_ok)
    \/ \E t \in TaskIds : TogglePoll(t)
    \/ \E t \in TaskIds : ToggleTimeout(t)
    \/ \E t \in TaskIds, n \in 0 .. Cardinality(Wins) : ToggleGatewayError(t, n)
    \/ \E w \in SpecWins, d \in RealDesktops, focus \in BOOLEAN :
          MapWindow(w, d, focus)
    \/ \E w \in Wins : FocusWindow(w)
    \/ \E w \in Wins : WmReportsSticky(w)

Spec == Init /\ [][Next]_vars

\* the steps the event loop runs a toggle's coroutine for
TaskStep(t) ==
    \/ \E exec_ok \in BOOLEAN : ToggleStart(t, exec_ok)
    \/ TogglePoll(t)
    \/ ToggleTimeout(t)

\* SpecFair: Spec with the event loop's scheduling.  The loop runs a task
\* that has been created, and one whose await (the launch, the sleep of one
\* interval) is over, after finitely many other callbacks.
SpecFair == Spec /\ \A t \in TaskIds : WF_vars(TaskStep(t))

\* SpecConcurrent: registered commands written at any time; one window of
\* each application, none of them there when the daemon starts, and the
\* terminal on the first desktop.  The only change from outside is a window
\* being mapped.
ConcurrentWins == {"s1", "o1"}

InitConcurrent ==
    /\ wm = [w \in Wins |->
               IF w = "x1"
               THEN [Unmapped EXCEPT !.mapped = TRUE]
               ELSE Unmapped]
    /\ active = "x1"
    /\ InitDaemon

NextConcurrent ==
    \/ \E arg \in Apps : WriteAfterRead(arg)
    \/ data_received
    \/ \E t \in TaskIds, exec_ok \in BOOLEAN : ToggleStart(t, exec_ok)
    \/ \E t \in TaskIds : TogglePoll(t)
    \/ \E t \in TaskIds : ToggleTimeout(t)
    \/ \E t \in TaskIds, n \in 0 .. Cardinality(Wins) : ToggleGatewayError(t, n)
    \/ \E w \in ConcurrentWins, d \in RealDesktops, focus \in BOOLEAN :
          MapWindow(w, d, focus)

SpecConcurrent == InitConcurrent /\ [][NextConcurrent]_vars

\* SpecBurst: the windows of SpecConcurrent; any command, written while the
\* loop is idle, two of them possibly before the daemon reads.
NextBurst ==
    \/ \E arg \in Commands : WriteBurst(arg)
    \/ data_received
    \/ \E t \in TaskIds, exec_ok \in BOOLEAN : ToggleStart(t, exec_ok)
    \/ \E t \in TaskIds : TogglePoll(t)
    \/ \E t \in TaskIds : ToggleTimeout(t)
    \/ \E t \in TaskIds, n \in 0 .. Cardinality(Wins) : ToggleGatewayError(t, n)
    \/ \E w \in ConcurrentWins, d \in RealDesktops, focus \in BOOLEAN :
          MapWindow(w, d, focus)

SpecBurst == InitConcurrent /\ [][NextBurst]_vars

(***************************************************************************)
(* main(), lines 103-149, one action per system call; several instances.   *)
(***************************************************************************)
\* a pid left in the PID file by a process that no longer exists
StalePid == MaxInstances + 1

Alive(p) == proc[p].pc \notin {"idle", "dead"}

\* the pid of a live process that is no instance of the program: the system
\* has given it a pid that a dead instance left in the PID file
ForeignPid == MaxInstances + 2

\* os.kill finds a process with this pid
Running(pid) == pid = ForeignPid \/ (pid \in Pids /\ Alive(pid))

\* the process is gone: its descriptors are closed
Gone(pr, how) == [pr EXCEPT !.pc = "dead", !.rfd = 0, !.wfd = 0, !.exit = how]

\* mutant: the exception is swallowed and main() enters its loop
Raise_and_listen(pr) == [pr EXCEPT !.pc = "listening", !.exit = "error"]

\* an uncaught exception ends main(); the interpreter then runs the atexit
\* handlers, if lines 141-142 have registered them
Raise(pr) ==
    IF pr.atexit THEN [pr EXCEPT !.pc = "atexit_fifo", !.exit = "error"]
    ELSE Gone(pr, "error")

\* the program is started
Start(p) ==
    /\ proc[p].pc = "idle"
    /\ proc' = [proc EXCEPT ![p].pc = "script"]
    /\ UNCHANGED <<pidFile, fifoFile, script, toggleVars>>

\* mutant: the script is written on every startup
script_absent_or_not(sc) == TRUE

\* line 109: not script.exists()
script_absent(sc) == ~sc.exists

\* line 109: the test
CheckScript(p) ==
    /\ proc[p].pc = "script"
    /\ proc' = [proc EXCEPT ![p].pc =
                  IF script_absent(script) THEN "write_script" ELSE "exists"]
    /\ UNCHANGED <<pidFile, fifoFile, script, toggleVars>>

\* line 114: script.write_text creates the file, or truncates it, with the
\* default mode and writes the text
WriteScript(p) ==
    /\ proc[p].pc = "write_script"
    /\ script' = [exists |-> TRUE, content |-> script_contents,
                  mode |-> IF script.exists THEN script.mode ELSE "644"]
    /\ proc' = [proc EXCEPT ![p].pc = "chmod"]
    /\ UNCHANGED <<pidFile, fifoFile, toggleVars>>

\* line 115: script.chmod(0o755)
ChmodScript(p) ==
    /\ proc[p].pc = "chmod"
    /\ script' = [script EXCEPT !.mode = "755"]
    /\ proc' = [proc EXCEPT ![p].pc = "exists"]
    /\ UNCHANGED <<pidFile, fifoFile, toggleVars>>

\* line 118: os.path.exists(pid_file)
CheckPidFile(p) ==
    /\ proc[p].pc = "exists"
    /\ proc' = [proc EXCEPT ![p].pc = IF pidFile.exists THEN "read" ELSE "open_w"]
    /\ UNCHANGED <<pidFile, fifoFile, script, toggleVars>>

\* lines 119-120: open, read, int(); a missing file or an empty one raises
ReadPidFile(p) ==
    /\ proc[p].pc = "read"
    /\ proc' = [proc EXCEPT ![p] =
                  IF pidFile.exists /\ pidFile.content # <<>>
                  THEN [@ EXCEPT !.pc = "kill", !.pid = pidFile.content[1]]
                  ELSE Raise(@)]
    /\ UNCHANGED <<pidFile, fifoFile, script, toggleVars>>

\* mutant: ProcessLookupError is not caught
kill_uncaught(pr, target_found) ==
    IF target_found THEN [pr EXCEPT !.pc = "open_w"] ELSE Raise(pr)

\* lines 121-130 for the caller: whether os.kill finds the process or raises
\* ProcessLookupError, which is caught, main() goes on to line 132
kill(pr, target_found) == [pr EXCEPT !.pc = "open_w"]

\* lines 121-130: os.kill(pid, 15); ProcessLookupError is caught
KillPrior(p) ==
    /\ proc[p].pc = "kill"
    /\ LET target == proc[p].pid
       IN proc' = [q \in Pids |->
                     IF q = p
                     THEN [kill(proc[q], Running(target)) EXCEPT
                             !.sigterm = IF target = p /\ @ = "none"
                                         THEN "self" ELSE @]
                     ELSE IF q = target /\ Alive(q) /\ proc[q].sigterm = "none"
                     THEN [proc[q] EXCEPT !.sigterm = "peer"]
                     ELSE proc[q]]
    /\ UNCHANGED <<pidFile, fifoFile, script, toggleVars>>

\* line 132: open(pid_file, "w") creates the file or truncates it
OpenPidFile(p) ==
    /\ proc[p].pc = "open_w"
    /\ pidFile' = IF pidFile.exists
                  THEN [pidFile EXCEPT !.content = <<>>]
                  ELSE [exists |-> TRUE, ino |-> p, content |-> <<>>]
    /\ proc' = [proc EXCEPT ![p].pc = "write", ![p].wfd = pidFile'.ino]
    /\ UNCHANGED <<fifoFile, script, toggleVars>>

\* line 133 and the close: the pid goes to the file that was opened, which
\* the path no longer names if it has been unlinked since
WritePid(p) ==
    /\ proc[p].pc = "write"
    /\ pidFile' = IF pidFile.exists /\ pidFile.ino = proc[p].wfd
                  THEN [pidFile EXCEPT !.content = <<p>>]
                  ELSE pidFile
    /\ proc' = [proc EXCEPT ![p].pc = "unlink_fifo", ![p].wfd = 0]
    /\ UNCHANGED <<fifoFile, script, toggleVars>>

\* lines 135-138: os.unlink(fifo_file), FileNotFoundError passed over
UnlinkFifo(p) ==
    /\ proc[p].pc = "unlink_fifo"
    /\ fifoFile' = NoFile
    /\ proc' = [proc EXCEPT ![p].pc = "mkfifo"]
    /\ UNCHANGED <<pidFile, script, toggleVars>>

\* lines 139-142: os.mkfifo raises FileExistsError when the path exists;
\* then the two atexit handlers are registered
MkFifo(p) ==
    /\ proc[p].pc = "mkfifo"
    /\ IF fifoFile.exists
       THEN /\ proc' = [proc EXCEPT ![p] = Raise(@)]
            /\ fifoFile' = fifoFile
       ELSE /\ fifoFile' = [exists |-> TRUE, ino |-> p, content |-> <<>>]
            /\ proc' = [proc EXCEPT ![p].pc = "open_fifo", ![p].atexit = TRUE]
    /\ UNCHANGED <<pidFile, script, toggleVars>>

\* lines 144-146: os.open(fifo_file, O_RDWR) and connect_read_pipe
OpenFifo(p) ==
    /\ proc[p].pc = "open_fifo"
    /\ proc' = [proc EXCEPT ![p] =
                  IF fifoFile.exists
                  THEN [@ EXCEPT !.pc = "listening", !.rfd = fifoFile.ino]
                  ELSE Raise(@)]
    /\ UNCHANGED <<pidFile, fifoFile, script, toggleVars>>

\* KeyboardInterrupt (or any exception) leaves asyncio.run at lines 148-149
Interrupt(p) ==
    /\ proc[p].pc = "listening"
    /\ proc' = [proc EXCEPT ![p].pc = "atexit_fifo", ![p].exit = "interrupt"]
    /\ UNCHANGED <<pidFile, fifoFile, script, toggleVars>>

\* atexit runs the handlers last registered first: os.unlink(fifo_file)
AtexitUnlinkFifo(p) ==
    /\ proc[p].pc = "atexit_fifo"
    /\ fifoFile' = NoFile
    /\ proc' = [proc EXCEPT ![p].pc = "atexit_pid"]
    /\ UNCHANGED <<pidFile, script, toggleVars>>

\* then os.unlink(pid_file), and the process is gone
AtexitUnlinkPid(p) ==
    /\ proc[p].pc = "atexit_pid"
    /\ pidFile' = NoFile
    /\ proc' = [proc EXCEPT ![p] = Gone(@, @.exit)]
    /\ UNCHANGED <<fifoFile, script, toggleVars>>

\* a termination signal from outside the program (kill, session shutdown)
Terminate(p) ==
    /\ proc[p].pc = "listening"
    /\ proc[p].sigterm = "none"
    /\ proc' = [proc EXCEPT ![p].sigterm = "user"]
    /\ UNCHANGED <<pidFile, fifoFile, script, toggleVars>>

\* What SIGTERM does to the process.  The program installs no handler for
\* it, so the default action ends the process at once and the interpreter
\* never runs the atexit handlers.
OnSigterm(pr) == Gone(pr, "sigterm")

DeliverSigterm(p) ==
    /\ Alive(p)
    /\ proc[p].sigterm # "none"
    /\ proc' = [proc EXCEPT ![p] = OnSigterm(@)]
    /\ UNCHANGED <<pidFile, fifoFile, script, toggleVars>>

\* no instance runs; the PID file and the fifo path are absent, or left
\* behind together by a dead process
InitSingleton ==
    /\ wm = [w \in Wins |->
               IF w = "x1"
               THEN [Unmapped EXCEPT !.mapped = TRUE]
               ELSE Unmapped]
    /\ active = "x1"
    /\ tasks = [t \in TaskIds |-> NoTask]
    /\ pipe = <<>>
    /\ logged = <<>>
    /\ proc = [p \in Pids |-> NoProc]
    /\ pidFile \in {NoFile,
                    [exists |-> TRUE, ino |-> StalePid, content |-> <<StalePid>>]}
    /\ fifoFile \in {NoFile,
                     [exists |-> TRUE, ino |-> StalePid, content |-> <<>>]}
    /\ script \in {NoScript, UserScript, HelperScript}

NextSingleton ==
    \/ \E p \in Pids : Start(p)
    \/ \E p \in Pids : CheckScript(p)
    \/ \E p \in Pids : WriteScript(p)
    \/ \E p \in Pids : ChmodScript(p)
    \/ \E p \in Pids : CheckPidFile(p)
    \/ \E p \in Pids : ReadPidFile(p)
    \/ \E p \in Pids : KillPrior(p)
    \/ \E p \in Pids : OpenPidFile(p)
    \/ \E p \in Pids : WritePid(p)
    \/ \E p \in Pids : UnlinkFifo(p)
    \/ \E p \in Pids : MkFifo(p)
    \/ \E p \in Pids : OpenFifo(p)
    \/ \E p \in Pids : Interrupt(p)
    \/ \E p \in Pids : AtexitUnlinkFifo(p)
    \/ \E p \in Pids : AtexitUnlinkPid(p)
    \/ \E p \in Pids : Terminate(p)
    \/ \E p \in Pids : DeliverSigterm(p)

SpecSingleton == InitSingleton /\ [][NextSingleton]_vars

\* SpecReuse: the PID file has been left behind by a dead instance and its
\* pid has been given to another process since: to a process that is no
\* instance of the program, or to an instance about to start.
InitReuse ==
    /\ wm = [w \in Wins |->
               IF w = "x1"
               THEN [Unmapped EXCEPT !.mapped = TRUE]
               ELSE Unmapped]
    /\ active = "x1"
    /\ tasks = [t \in TaskIds |-> NoTask]
    /\ pipe = <<>>
    /\ logged = <<>>
    /\ proc = [p \in Pids |-> NoProc]
    /\ pidFile \in {[exists |-> TRUE, ino |-> StalePid, content |-> <<q>>] :
                       q \in Pids \cup {ForeignPid}}
    /\ fifoFile \in {NoFile,
                     [exists |-> TRUE, ino |-> StalePid, content |-> <<>>]}
    /\ script \in {NoScript, UserScript, HelperScript}

SpecReuse == InitReuse /\ [][NextSingleton]_vars

(***************************************************************************)
(* Properties.                                                             *)
(***************************************************************************)
FlagsSet(wmS, w) == wmS[w].sticky /\ wmS[w].above /\ wmS[w].dock

FlagsClear(wmS, w) == ~wmS[w].sticky /\ ~wmS[w].above /\ ~wmS[w].dock

Hidden(wmS, w) == wmS[w].desktop = inactive_desktop /\ FlagsClear(wmS, w)

\* the windows the probe of task t finds in the current state
Probe(t) == windows(wm, tasks[t].app)

InSeq(x, seq) == \E k \in DOMAIN seq : seq[k] = x

\* x comes before y in seq
Before(x, y, seq) ==
    \E j, k \in DOMAIN seq : j < k /\ seq[j] = x /\ seq[k] = y

\* the step in which task t, whose first probe finds windows, toggles them
TogglesFound(t) == tasks[t].st = "created" /\ tasks'[t].st = "done"

\* the step in which task t, having launched, finds windows and toggles them
TogglesSpawned(t) ==
    tasks[t].st \in {"spawning", "sleeping"} /\ tasks'[t].st = "done"

\* C1: when a toggle's first probe finds windows, every window it finds
\* whose desktop is the active window's and is not the sticky sentinel ends
\* the toggle on the inactive desktop with sticky, above and dock cleared.
C1_ActiveDesktopWindowsHidden ==
    [][\A t \in TaskIds :
          TogglesFound(t) =>
             \A w \in Wins :
                (/\ InSeq(w, Probe(t))
                 /\ wm[w].desktop = wm[active].desktop
                 /\ wm[w].desktop # STICKY_DESKTOP)
                => Hidden(wm', w)]_vars

\* C2: the step of a toggle that makes its first probe launches the command
\* once when the probe is empty and not at all when it finds windows, and no
\* later step of the toggle, polling or timing out, launches again.
C2_ExactlyOneLaunch ==
    [][\A t \in TaskIds :
          /\ (tasks[t].st = "created" /\ tasks'[t] # tasks[t])
             => tasks'[t].launches = IF Probe(t) = <<>> THEN 1 ELSE 0
          /\ (tasks[t].st \in {"spawning", "sleeping"})
             => tasks'[t].launches = 1]_vars

\* a toggle that launched once, slept at least once and then showed its window
C2_Witness ==
    \E t \in TaskIds :
        /\ tasks[t].st = "done"
        /\ tasks[t].just_spawned
        /\ tasks[t].i >= 1
        /\ tasks[t].launches = 1

\* C3: when a toggle that launched the application finds windows, every
\* window of that probe ends the toggle with sticky, above and dock set and
\* on the desktop it was on, whatever that desktop and the active window's.
C3_SpawnedWindowsShown ==
    [][\A t \in TaskIds :
          TogglesSpawned(t) =>
             \A w \in Wins :
                InSeq(w, Probe(t))
                => FlagsSet(wm', w) /\ wm'[w].desktop = wm[w].desktop]_vars

\* a just-spawned window shown although it is on the active window's desktop
C3_Witness ==
    \E t \in TaskIds :
        /\ tasks[t].st = "done"
        /\ tasks[t].just_spawned
        /\ \E w \in Wins :
              /\ InSeq(w, Probe(t))
              /\ FlagsSet(wm, w)
              /\ w # active
              /\ wm[w].desktop = wm[active].desktop

\* C4 as stated: when a toggle's first probe finds windows, every window it
\* finds on the inactive desktop or on the sticky sentinel ends the toggle
\* with sticky, above and dock set and is not moved.
C4_InactiveOrStickyShown ==
    [][\A t \in TaskIds :
          TogglesFound(t) =>
             \A w \in Wins :
                (/\ InSeq(w, Probe(t))
                 /\ wm[w].desktop \in {inactive_desktop, STICKY_DESKTOP})
                => FlagsSet(wm', w) /\ wm'[w].desktop = wm[w].desktop]_vars

\* C4 amended: when a toggle's first probe finds windows, a window it finds
\* on the inactive desktop is shown (flags set, not moved) if the active
\* window is on another desktop and is not a window of the same probe that
\* the loop has handled, and so hidden, before it; a window on the sticky
\* sentinel is hidden.
C4_InactiveShownStickyHidden ==
    [][\A t \in TaskIds :
          TogglesFound(t) =>
             \A w \in Wins :
                InSeq(w, Probe(t)) =>
                   /\ (/\ wm[w].desktop = inactive_desktop
                       /\ wm[active].desktop # inactive_desktop
                       /\ ~Before(active, w, Probe(t)))
                      => FlagsSet(wm', w) /\ wm'[w].desktop = wm[w].desktop
                   /\ wm[w].desktop = STICKY_DESKTOP
                      => Hidden(wm', w)]_vars

\* a window on the inactive desktop that a toggle has shown without spawning
C4_Witness ==
    \E t \in TaskIds :
        /\ tasks[t].st = "done"
        /\ ~tasks[t].just_spawned
        /\ \E w \in Wins :
              /\ InSeq(w, Probe(t))
              /\ wm[w].desktop = inactive_desktop
              /\ FlagsSet(wm, w)

\* the step in which the listener reads a command that is no registry key
ReadsUnknown ==
    /\ pipe # <<>>
    /\ pipe' = <<>>
    /\ ~in_registry(strip(pipe))

\* C5: reading a command that is no key of the registry starts no task,
\* launches nothing, leaves every window and the active window as they
\* were, and leaves the daemon listening; and whenever the daemon listens
\* and a command is on the pipe, the listener can read it (a registered
\* command needs a slot of the loop's model to be free).
C5_UnknownCommandIgnored ==
    /\ [][ReadsUnknown =>
             /\ tasks' = tasks
             /\ wm' = wm
             /\ active' = active
             /\ Listening(Daemon)']_vars
    /\ [](( /\ Listening(Daemon)
            /\ pipe # <<>>
            /\ (in_registry(strip(pipe)) => \E t \in TaskIds : FreeSlot(t)))
          => ENABLED data_received)

\* an unknown command has just been read and a registered one is dispatched
C5_Witness ==
    /\ logged # <<>>
    /\ logged[1].msg = "Unknown app"
    /\ logged[1].arg = <<"unknownapp">>
    /\ Listening(Daemon)
    /\ pipe = echo("spotify")
    /\ ENABLED data_received

\* the instances that have been started
Started == {p \in Pids : proc[p].pc # "idle"}

\* every started instance has either reached its listening state or is
\* gone, and no signal is still to be delivered
Settled ==
    \A p \in Started :
        /\ proc[p].pc \in {"listening", "dead"}
        /\ Alive(p) => proc[p].sigterm = "none"

\* nothing from outside the program has ended an instance
NoOutsideSignal ==
    \A p \in Pids : proc[p].sigterm # "user" /\ proc[p].exit # "interrupt"

\* the processes that hold a fifo open
Readers == {p \in Pids : Alive(p) /\ proc[p].rfd # 0}

\* C6: once two instances have been started and both have settled, with no
\* signal from outside, exactly one instance is left, the PID file holds
\* its pid, and exactly one process holds a command channel open, the
\* fifo at the channel path.
C6_OneSurvivorOwnsLock ==
    (Cardinality(Started) = 2 /\ Settled /\ NoOutsideSignal)
    => \E p \in Pids :
          /\ {q \in Pids : Alive(q)} = {p}
          /\ pidFile.exists /\ pidFile.content = <<p>>
          /\ fifoFile.exists
          /\ Readers = {p}
          /\ proc[p].rfd = fifoFile.ino

\* the instance has reached line 148, and is still there or is leaving it
CompletedStartup(p) ==
    \/ proc[p].pc = "listening"
    \/ proc[p].pc \in {"atexit_fifo", "atexit_pid"} /\ proc[p].exit = "interrupt"

\* C7: whenever an instance that has completed startup is gone, by a normal
\* or abnormal exit or by a termination signal, the PID file and the fifo
\* path have been removed.
C7_CleanupOnEveryExit ==
    [][\A p \in Pids :
          (CompletedStartup(p) /\ proc'[p].pc = "dead")
          => ~pidFile'.exists /\ ~fifoFile'.exists]_vars

\* C8: at no time are two live instances both past the PID-file step and
\* listening.
C8_AtMostOneListening ==
    Cardinality({p \in Pids : Listening(p)}) <= 1

\* the step of a task whose last probe of the loop has found nothing
LoopExhausted(t) ==
    /\ tasks[t].st = "sleeping"
    /\ tasks[t].i = win_wait_attempts
    /\ tasks'[t] # tasks[t]

\* C9: the step a toggle takes after its last probe has found nothing ends
\* it in timeout with the error logged, changes no window and not the
\* active window, launches nothing, leaves the other tasks and the daemon
\* as they were; and whenever the daemon listens and a command is on the
\* pipe, the listener can read it.
C9_TimeoutEndsToggleOnly ==
    /\ [][\A t \in TaskIds :
             LoopExhausted(t) =>
                /\ tasks'[t].st = "timeout"
                /\ tasks'[t].launches = tasks[t].launches
                /\ \A u \in TaskIds \ {t} : tasks'[u] = tasks[u]
                /\ logged' = <<[msg |-> "Failed to find window for",
                                arg |-> scratchpad_apps[tasks[t].app].window_class]>>
                /\ wm' = wm
                /\ active' = active
                /\ Listening(Daemon)']_vars
    /\ [](( /\ Listening(Daemon)
            /\ pipe # <<>>
            /\ \E t \in TaskIds : FreeSlot(t))
          => ENABLED data_received)

\* a toggle has timed out after one launch, and the next command is on the pipe
C9_Witness ==
    /\ \E t \in TaskIds :
          /\ tasks[t].st = "timeout"
          /\ tasks[t].launches = 1
          /\ tasks[t].i = win_wait_attempts
    /\ logged # <<>>
    /\ logged[1].msg = "Failed to find window for"
    /\ pipe # <<>>
    /\ ENABLED data_received

Waiting(t) == tasks[t].st \in {"spawning", "sleeping"}

\* C10: while a toggle for one application waits in its polling loop, a
\* toggle for another application can take its next step, whichever it is,
\* and the listener can read a command for which a slot is free.
C10_WaitingToggleBlocksNothing ==
    \A t \in TaskIds :
        Waiting(t) =>
           /\ \A u \in TaskIds :
                 (tasks[u].app # tasks[t].app /\ tasks[u].st = "created")
                 => ENABLED ToggleStart(u, TRUE)
           /\ \A u \in TaskIds :
                 (tasks[u].app # tasks[t].app /\ Waiting(u))
                 => ENABLED (TogglePoll(u) \/ ToggleTimeout(u))
           /\ (pipe # <<>> /\ \E u \in TaskIds : FreeSlot(u))
              => ENABLED data_received

\* a toggle for Obsidian has hidden or shown its window and is done while
\* a toggle for Spotify, started before it, still waits
C10_Witness ==
    /\ tasks["t1"].app = "spotify"
    /\ Waiting("t1")
    /\ tasks["t2"].app = "obsidian"
    /\ tasks["t2"].st = "done"
    /\ ~tasks["t2"].just_spawned
    /\ Hidden(wm, "o1")

\* the whitespace-delimited words of a payload
Tokens(s) == SelectSeq(s, LAMBDA x : x \notin Whitespace)

\* the words of a payload that are keys of the registry
RegisteredTokens(s) == SelectSeq(Tokens(s), LAMBDA x : x \in Apps)

\* the slots whose task this step has created
Dispatched == {t \in TaskIds : tasks'[t].st = "created" /\ tasks'[t] # tasks[t]}

\* C11: a read that finds the loop idle starts one toggle task for each
\* registered word of the payload it returns, for the application the word
\* names; so a payload made of the writes for two applications starts both.
C11_EveryTokenDispatched ==
    [][(/\ pipe # <<>>
        /\ pipe' = <<>>
        /\ \A t \in TaskIds : Finished(t)
        /\ Len(RegisteredTokens(pipe)) <= Cardinality(TaskIds))
       => /\ Cardinality(Dispatched) = Len(RegisteredTokens(pipe))
          /\ \A k \in DOMAIN RegisteredTokens(pipe) :
                \E t \in Dispatched :
                    tasks'[t].app = RegisteredTokens(pipe)[k]]_vars

\* the step in which the listener reads a payload that strips to nothing
ReadsEmpty ==
    /\ pipe # <<>>
    /\ pipe' = <<>>
    /\ strip(pipe) = <<>>

\* C12: reading a payload that is empty once stripped starts no task,
\* changes no window and logs no error.
C12_EmptyTokenIgnored ==
    [][ReadsEmpty =>
          /\ tasks' = tasks
          /\ wm' = wm
          /\ logged' = <<>>]_vars

\* task t is the first of two toggles: it has launched the application and
\* waits for its window, or has found and shown it
SpawnedFirst(t) ==
    /\ tasks[t].launches = 1
    /\ \/ Waiting(t)
       \/ tasks[t].st = "done" /\ tasks[t].just_spawned

\* C13: when a toggle has launched an application that had no window, the
\* first step of a second toggle for the same application launches nothing
\* and does not force the show: it decides for the windows it finds and is
\* done.
C13_SecondToggleDecides ==
    [][\A t, u \in TaskIds :
          (/\ t # u
           /\ SpawnedFirst(t)
           /\ tasks[u].app = tasks[t].app
           /\ tasks[u].st = "created"
           /\ tasks'[u] # tasks[u])
          => /\ tasks'[u].launches = 0
             /\ tasks'[u].st = "done"
             /\ ~tasks'[u].just_spawned]_vars

\* the steps of main() from the kill to the listening loop
StartupSteps(p) ==
    \/ KillPrior(p)
    \/ OpenPidFile(p)
    \/ WritePid(p)
    \/ UnlinkFifo(p)
    \/ MkFifo(p)
    \/ OpenFifo(p)

\* the pid instance p has read from the PID file names no live process
ReadStalePid(p) ==
    /\ proc[p].pid # 0
    /\ ~(proc[p].pid \in Pids /\ Alive(proc[p].pid))

\* C14: an instance whose os.kill finds no process goes on to write the PID
\* file; and an instance that has read a stale pid, with no other instance
\* started and no signal sent to it, never ends in an error, always has
\* its next startup step enabled, and listens with its own pid in the PID
\* file.
C14_StalePidTolerated ==
    /\ [][\A p \in Pids :
             (/\ proc[p].pc = "kill"
              /\ ReadStalePid(p)
              /\ proc[p].sigterm = "none"
              /\ proc'[p].pc # "kill")
             => proc'[p].pc = "open_w"]_vars
    /\ [](\A p \in Pids :
             (/\ Started = {p}
              /\ proc[p].pid = StalePid
              /\ proc[p].sigterm = "none")
             => /\ proc[p].exit # "error"
                /\ proc[p].pc \in {"kill", "open_w", "write", "unlink_fifo",
                                   "mkfifo", "open_fifo"}
                   => ENABLED StartupSteps(p)
                /\ Listening(p)
                   => pidFile.exists /\ pidFile.content = <<p>>)

\* an instance that found a stale PID file listens, the file holding its pid
C14_Witness ==
    \E p \in Pids :
        /\ Started = {p}
        /\ proc[p].pid = StalePid
        /\ Listening(p)
        /\ pidFile.content = <<p>>

\* main() from its start to the write of line 133
PidFileSteps == {"exists", "read", "kill", "open_w", "write"}

\* C15: an instance that no signal has been sent to leaves the PID-file
\* part of its startup only with the PID file holding its own pid.
C15_PidFileHoldsOwnPid ==
    [][\A p \in Pids :
          (/\ proc[p].pc \in PidFileSteps
           /\ proc[p].sigterm = "none"
           /\ proc'[p].pc \notin PidFileSteps)
          => pidFile'.exists /\ pidFile'.content = <<p>>]_vars

\* the step in which task t ends in a failure
Fails(t) ==
    /\ tasks'[t].st \in {"failed", "timeout"}
    /\ tasks[t].st \notin {"failed", "timeout"}

\* C16: the step in which a toggle fails (its launch cannot be executed, a
\* gateway call raises, its polling loop is exhausted) changes no other
\* task, not the daemon and not the pipe; and while a failed toggle is
\* there the daemon listens, every other toggle can take its next step and
\* the listener can read the next command.
C16_FailureContained ==
    /\ [][\A t \in TaskIds :
             Fails(t) =>
                /\ \A u \in TaskIds \ {t} : tasks'[u] = tasks[u]
                /\ proc' = proc
                /\ pipe' = pipe]_vars
    /\ [](\A t \in TaskIds :
             tasks[t].st \in {"failed", "timeout"} =>
                /\ Listening(Daemon)
                /\ \A u \in TaskIds \ {t} :
                      /\ tasks[u].st = "created" => ENABLED ToggleStart(u, TRUE)
                      /\ Waiting(u) => ENABLED (TogglePoll(u) \/ ToggleTimeout(u))
                /\ pipe # <<>> => ENABLED data_received)

\* a toggle has failed in a gateway call after hiding one of two windows,
\* while a toggle for the other application waits and can go on
C16_Witness ==
    \E t, u \in TaskIds :
        /\ tasks[t].st = "failed"
        /\ tasks[t].launches = 0
        /\ tasks[u].app # tasks[t].app
        /\ Waiting(u)
        /\ ENABLED TogglePoll(u)

\* instance p is at a step on the channel path that is going to fail:
\* os.mkfifo on a path that exists, os.open on a path that does not
ChannelUnavailable(p) ==
    \/ proc[p].pc = "mkfifo" /\ fifoFile.exists
    \/ proc[p].pc = "open_fifo" /\ ~fifoFile.exists

\* C17: the step of an instance that cannot create or open the channel path
\* ends main() with the error, with no channel open and not listening; and
\* an instance that has ended with an error never listens and never holds
\* a channel open.
C17_ChannelFailureFatal ==
    /\ [][\A p \in Pids :
             (/\ ChannelUnavailable(p)
              /\ proc[p].sigterm = "none"
              /\ proc'[p].pc # proc[p].pc)
             => /\ proc'[p].exit = "error"
                /\ proc'[p].pc \in {"atexit_fifo", "dead"}
                /\ proc'[p].rfd = 0]_vars
    /\ [](\A p \in Pids :
             proc[p].exit = "error" => ~Listening(p) /\ proc[p].rfd = 0)

\* an instance has ended because it could not open the channel path
C17_Witness ==
    \E p \in Pids :
        /\ proc[p].pc = "dead"
        /\ proc[p].exit = "error"
        /\ proc[p].atexit

\* C18: a read leaves the daemon's descriptor open, whatever writers have
\* opened and closed the pipe before it; and whenever the daemon listens, a
\* registered command written since the last read can be read, if a slot of
\* the loop's model is free.
C18_NoEndOfStream ==
    /\ [][(pipe # <<>> /\ pipe' = <<>>)
          => /\ proc'[Daemon].rfd # 0
             /\ proc'[Daemon].rfd = proc[Daemon].rfd]_vars
    /\ [](\A a \in Apps :
             (/\ Listening(Daemon)
              /\ pipe = echo(a)
              /\ \E t \in TaskIds : FreeSlot(t))
             => ENABLED data_received)

\* a toggle of an earlier command has shown a Spotify window, its writer is
\* long gone, and a later command has been read and dispatched
C18_Witness ==
    /\ \E w \in SpecWins : FlagsSet(wm, w) /\ wm[w].desktop \in RealDesktops
    /\ \E t \in TaskIds : tasks[t] = NewTask("spotify")
    /\ pipe = <<>>
    /\ proc[Daemon].rfd # 0

\* C19: an instance that finds a file at the script path goes on without
\* touching it, and one that finds none goes on to write it; the script is
\* changed only by an instance that found none; an instance that has
\* written it leaves it with the generated text and executable; a user's
\* file at the path is never changed.
C19_ScriptWrittenIfAbsent ==
    [][/\ \A p \in Pids :
             (proc[p].pc = "script" /\ proc'[p].pc # "script")
             => IF script.exists
                THEN proc'[p].pc = "exists" /\ script' = script
                ELSE proc'[p].pc = "write_script" /\ script' = script
       /\ script' # script
          => \E p \in Pids :
                /\ proc[p].pc \in {"write_script", "chmod"}
                /\ proc'[p].pc # proc[p].pc
       /\ \A p \in Pids :
             (proc[p].pc = "chmod" /\ proc'[p].pc # "chmod")
             => script' = HelperScript
       /\ script = UserScript => script' = UserScript]_vars

\* an instance has started up with the user's file at the script path
C19_Witness ==
    /\ script = UserScript
    /\ \E p \in Pids : Listening(p)

\* The active window's desktop as the loop reads it when it handles window w
\* of task t's probe.  The active window, when it is one of the probe, is
\* never inactive: once the loop has handled it, it is on the inactive
\* desktop.
ActiveDesktopAt(t, w) ==
    IF Before(active, w, Probe(t)) THEN inactive_desktop
    ELSE wm[active].desktop

\* C20: in a toggle whose first probe finds windows, a window is shown (flags
\* set, not moved) exactly when its desktop differs from the active
\* window's desktop, as read when the window is handled, and is not the
\* sticky sentinel; otherwise, a window on the sticky sentinel included, it
\* is hidden (moved to the inactive desktop, flags cleared).
C20_InactiveDetermination ==
    [][\A t \in TaskIds :
          TogglesFound(t) =>
             \A w \in Wins :
                InSeq(w, Probe(t)) =>
                   IF /\ wm[w].desktop # ActiveDesktopAt(t, w)
                      /\ wm[w].desktop # STICKY_DESKTOP
                   THEN FlagsSet(wm', w) /\ wm'[w].desktop = wm[w].desktop
                   ELSE Hidden(wm', w)]_vars

\* a toggle that did not spawn has shown one window of its probe, found
\* inactive, and hidden the other
C20_Witness ==
    \E t \in TaskIds :
        /\ tasks[t].st = "done"
        /\ ~tasks[t].just_spawned
        /\ \E v, w \in Wins :
              /\ InSeq(v, Probe(t)) /\ InSeq(w, Probe(t))
              /\ FlagsSet(wm, v) /\ wm[v].desktop \in RealDesktops
              /\ Hidden(wm, w)

\* the step in which task t, its probe having found windows, ends Deciding
Decides(t) == tasks'[t].st = "done" /\ tasks[t].st # "done"

\* C21: the step in which a toggle's probe finds windows is the step in
\* which all of them are shown or hidden: every window of the probe leaves
\* the step shown (flags set, not moved) or hidden, every other window is
\* as it was, and no other task, nor the listener, nor the focus has moved.
C21_DecidingAtomic ==
    [][\A t \in TaskIds :
          Decides(t) =>
             /\ \A w \in Wins :
                   IF InSeq(w, Probe(t))
                   THEN \/ FlagsSet(wm', w) /\ wm'[w].desktop = wm[w].desktop
                        \/ Hidden(wm', w)
                   ELSE wm'[w] = wm[w]
             /\ \A u \in TaskIds \ {t} : tasks'[u] = tasks[u]
             /\ pipe' = pipe
             /\ active' = active]_vars

\* a toggle has found and shown the Spotify window while another toggle
\* for Spotify is in flight
C21_Witness ==
    \E t, u \in TaskIds :
        /\ tasks[t].app = "spotify" /\ tasks[u].app = "spotify"
        /\ tasks[t].st = "done" /\ tasks[t].just_spawned
        /\ Waiting(u)
        /\ FlagsSet(wm, "s1")

\* the step in which task u launches its application's command
Launches(u) == tasks'[u].launches > tasks[u].launches

\* C22: while a toggle that has launched an application waits for its
\* window, no other toggle launches the same application.
C22_NoLaunchWhileWaiting ==
    [][\A t, u \in TaskIds :
          (/\ t # u
           /\ Waiting(t)
           /\ tasks[t].launches = 1
           /\ tasks[u].app = tasks[t].app)
          => ~Launches(u)]_vars

\* C23: a toggle that has launched probes at once (it has not slept when it
\* leaves the launch) and never sleeps more than win_wait_attempts times;
\* its step after fewer empty probes is a probe that ends it when it finds
\* windows and otherwise counts one more sleep, and its step after
\* win_wait_attempts empty probes ends it in timeout; and every toggle that
\* has been created finishes.
C23_PollingBoundedAndEnds ==
    /\ [](\A t \in TaskIds :
             /\ tasks[t].i <= win_wait_attempts
             /\ tasks[t].st = "spawning" => tasks[t].i = 0)
    /\ [][\A t \in TaskIds :
             (Waiting(t) /\ tasks'[t] # tasks[t]) =>
                IF tasks[t].i < win_wait_attempts
                THEN IF Probe(t) # <<>>
                     THEN /\ tasks'[t].st \in {"done", "failed"}
                          /\ tasks'[t].i = tasks[t].i
                     ELSE /\ tasks'[t].st = "sleeping"
                          /\ tasks'[t].i = tasks[t].i + 1
                ELSE tasks'[t].st = "timeout"]_vars
    /\ \A t \in TaskIds : ready(t) ~> Finished(t)

\* a toggle has ended in timeout after win_wait_attempts empty probes
C23_Witness ==
    \E t \in TaskIds :
        /\ tasks[t].st = "timeout"
        /\ tasks[t].i = win_wait_attempts
        /\ tasks[t].launches = 1
        /\ Probe(t) = <<>>

\* C24: an exiting instance that runs its exit cleanup leaves the PID file
\* alone when it holds the pid of another, live instance, and leaves the
\* fifo path alone when another, live instance has created the fifo there.
C24_CleanupOnlyOwnFiles ==
    [][\A p \in Pids :
          /\ (/\ proc[p].pc = "atexit_pid"
              /\ proc'[p].pc # "atexit_pid"
              /\ pidFile.exists
              /\ \E q \in Pids \ {p} : Alive(q) /\ pidFile.content = <<q>>)
             => pidFile' = pidFile
          /\ (/\ proc[p].pc = "atexit_fifo"
              /\ proc'[p].pc # "atexit_fifo"
              /\ fifoFile.exists
              /\ \E q \in Pids \ {p} : Alive(q) /\ fifoFile.ino = q)
             => fifoFile' = fifoFile]_vars

\* a toggle for application a has started or is about to, and has not ended
InFlight(a) == {t \in TaskIds : tasks[t].app = a /\ ~Finished(t)}

\* C25: a read of a registered command creates a task for it whatever
\* toggles are in flight, its application's included, and touches none of
\* them; and while a toggle for an application is in flight the listener can
\* read another command for it (a slot of the loop's model being free) and
\* every other toggle for it can take its next step.
C25_SameAppNotExcluded ==
    /\ [][\A a \in Apps :
             (pipe = echo(a) /\ pipe' = <<>>)
             => \E t \in TaskIds :
                   /\ Finished(t)
                   /\ tasks'[t] = NewTask(a)
                   /\ \A u \in TaskIds \ {t} : tasks'[u] = tasks[u]]_vars
    /\ [](\A a \in Apps :
             InFlight(a) # {} =>
                /\ (pipe = echo(a) /\ \E t \in TaskIds : FreeSlot(t))
                   => ENABLED data_received
                /\ \A u \in InFlight(a) :
                      /\ tasks[u].st = "created" => ENABLED ToggleStart(u, TRUE)
                      /\ Waiting(u) => ENABLED (TogglePoll(u) \/ ToggleTimeout(u)))

\* two toggles for Spotify are in flight, both waiting for its window
C25_Witness ==
    /\ tasks["t1"].app = "spotify" /\ Waiting("t1")
    /\ tasks["t2"].app = "spotify" /\ Waiting("t2")

\* instance p has sent the termination signal to the process that is no
\* instance of the program
SignalledForeign(p) == proc[p].pid = ForeignPid /\ proc[p].pc # "kill"

\* C26: no instance sends the termination signal to itself or to a process
\* that is no instance of the program.
C26_SignalOnlyToPriorInstance ==
    \A p \in Pids :
        /\ proc[p].sigterm # "self"
        /\ ~SignalledForeign(p)

\* C27: in a toggle whose first probe finds windows, each window is routed
\* by its own desktop and the active window's as the toggle found them,
\* whatever the loop has done to the windows before it: shown (flags set, not
\* moved) when its desktop differs from the active window's and is not the
\* sticky sentinel, hidden otherwise.
C27_RoutedIndependently ==
    [][\A t \in TaskIds :
          TogglesFound(t) =>
             \A w \in Wins :
                InSeq(w, Probe(t)) =>
                   IF /\ wm[w].desktop # wm[active].desktop
                      /\ wm[w].desktop # STICKY_DESKTOP
                   THEN FlagsSet(wm', w) /\ wm'[w].desktop = wm[w].desktop
                   ELSE Hidden(wm', w)]_vars

\* a flag of window w that was clear is set after the step
SetsAFlag(w) ==
    \/ ~wm[w].sticky /\ wm'[w].sticky
    \/ ~wm[w].above /\ wm'[w].above
    \/ ~wm[w].dock /\ wm'[w].dock

\* C28: the inactive desktop is the number of desktops minus one; and in
\* every step of the daemon, a window whose desktop changes ends on the
\* inactive desktop with its three flags clear, a window that has a flag set
\* ends with the three flags set and on the desktop it was on, and no window
\* is mapped or unmapped.
C28_ShowingHidingFrame ==
    /\ [](inactive_desktop = NumberOfDesktops - 1)
    /\ [][tasks' # tasks =>
             \A w \in Wins :
                /\ wm'[w].mapped = wm[w].mapped
                /\ wm'[w].desktop # wm[w].desktop
                   => Hidden(wm', w)
                /\ SetsAFlag(w)
                   => FlagsSet(wm', w) /\ wm'[w].desktop = wm[w].desktop
                /\ wm'[w] # wm[w]
                   => \/ FlagsSet(wm', w) /\ wm'[w].desktop = wm[w].desktop
                      \/ Hidden(wm', w)]_vars

\* a toggle has shown a just-spawned window where it was, on a desktop that
\* is not the inactive one
C28_Witness ==
    \E t \in TaskIds :
        /\ tasks[t].st = "done"
        /\ tasks[t].just_spawned
        /\ \E w \in Wins :
              /\ InSeq(w, Probe(t))
              /\ FlagsSet(wm, w)
              /\ wm[w].desktop \in RealDesktops \ {inactive_desktop}

\* a step of the toggle in task t
StepsToggle(t) == ready(t) /\ tasks'[t] # tasks[t]

\* C29: a step of a toggle leaves as it was every window whose class is not
\* the class of the toggle's application, and every window that the probe
\* of that very step does not return.
C29_OnlyOwnProbedWindows ==
    [][\A t \in TaskIds :
          StepsToggle(t) =>
             \A w \in Wins :
                (\/ get_wm_class(w) # scratchpad_apps[tasks[t].app].window_class
                 \/ ~wm[w].mapped
                 \/ ~InSeq(w, Probe(t)))
                => wm'[w] = wm[w]]_vars

\* a toggle for Spotify has shown its window while the Obsidian window and
\* the terminal, mapped on the first desktop, are as they were
C29_Witness ==
    /\ \E t \in TaskIds : tasks[t].app = "spotify" /\ tasks[t].st = "done"
    /\ FlagsSet(wm, "s1")
    /\ wm["o1"].mapped /\ FlagsClear(wm, "o1") /\ wm["o1"].desktop = 0
    /\ wm["x1"].mapped /\ FlagsClear(wm, "x1") /\ wm["x1"].desktop = 0

\* the step in which instance p, having written the PID file, is gone
\* because it could not create or open the channel path
FailedStartupEnds(p) ==
    /\ proc[p].pc \in {"mkfifo", "open_fifo", "atexit_pid"}
    /\ proc'[p].pc = "dead"
    /\ proc'[p].exit = "error"

\* C30: when an instance whose startup failed on the channel path is gone,
\* the PID file is absent or holds the pid of a live instance.
C30_FailedStartupLeavesNoPidFile ==
    [][\A p \in Pids :
          FailedStartupEnds(p) =>
             \/ ~pidFile'.exists
             \/ \E q \in Pids : Alive(q)' /\ pidFile'.content = <<q>>]_vars

====
